---- MODULE Spec2Model ----
(***************************************************************************)
(* A model of the Titan API example clients:                               *)
(*   - the backend WebSocket proxy (backend-proxy, src/unnamed/part_002),  *)
(*   - the raw WebSocket quote streamer (examples/stream-quotes-raw-ws.ts),*)
(*   - the reconnection pattern of SKILL.md (connectWithRetry).            *)
(* Each program is a Node.js event loop: one action below is one callback  *)
(* run to completion; a continuation of an `await` on an already settled   *)
(* promise is a microtask and runs before any further socket event.        *)
(***************************************************************************)
EXTENDS Integers, Sequences, FiniteSets, TLC

\* ------------------------------------------------------------------ bounds
NumPeers == 2        \* downstream peers the proxy has sockets for
NumRelayPeers == 1   \* peers that connect when frames are relayed (ProxySpec)
MaxFrames == 3       \* frames sent through the proxy, both directions
NumClientIds == 2    \* distinct keys Math.random() may give

Peers == 1..NumPeers
RelayPeers == 1..NumRelayPeers
ClientIds == 1..NumClientIds
NoPeer == 0
\* A frame is named by its place among the frames sent: every frame differs
\* from every other, so a relayed copy is recognisable.
Frames == 1..MaxFrames

\* The query parameter `token` of the peer's URL: absent (searchParams.get
\* gives null), empty, shorter than 10 characters, or at least 10.
NullToken == "<null>"
Tokens == {NullToken, "", "short", "0123456789ab"}

\* ws readyState values
CONNECTING == "CONNECTING"
OPEN == "OPEN"
CLOSING == "CLOSING"
CLOSED == "CLOSED"
NoSocket == "NONE"

VARIABLES
  \* ---- proxy (src/unnamed/part_002)
  pc,            \* per peer: where handleClientConnection stands
  userToken,     \* per peer: the token parameter of its URL
  clientId,      \* per peer: the key drawn for it
  clientWs,      \* per peer: readyState of the downstream socket
  closeCode,     \* per peer: code of the close frame the proxy sent it (0: none)
  titanWs,       \* per peer: readyState of its upstream socket
  dialResult,    \* per peer: state of the promise of connectToTitan
  timer,         \* per peer: the 10 s timer of connectToTitan is pending
  connections,   \* the map clientId -> pairing (the peer it belongs to)
  clientSent,    \* per peer: frames the peer sent, in order
  upRecv,        \* per peer: frames handed to titanWs.send, in order
  titanSent,     \* per peer: frames upstream sent, in order
  downRecv,      \* per peer: frames handed to clientWs.send, in order
  nFrames,       \* frames sent so far, both directions, all peers
  \* ---- raw client (src/examples/stream-quotes-raw-ws.ts)
  requestId,     \* the request id counter
  ws,            \* readyState of the client's socket
  activeStreamId,\* the stream the client holds active, or Null
  requests,      \* the requests built (and, in the client, sent), in order
  closeTimers,   \* pending setTimeout(() => ws.close(), 500) callbacks
  nSigints,      \* SIGINTs received
  exited,        \* process.exit was called
  decoded,       \* the message last handed to ws.on("message")
  handled,       \* the branches of the handler that message entered, in order
  output,        \* what the handler printed for it
  \* history of the connection, kept to state the claims
  pending,       \* ids of requests sent and not yet answered
  streamState,   \* per stream id: "none", "active" (created by a Response), "ended"
  lastSeq,       \* per active stream id: seq of the last StreamData handled (-1: none)
  prior,         \* what held just before `decoded` was handled: its requestId was
                 \* pending, the state and lastSeq of the stream it names
  \* ---- reconnection pattern (src/SKILL.md, connectWithRetry)
  retryPc,       \* where the running call of connectWithRetry stands
  maxRetries,    \* its argument
  attempt,       \* its loop variable
  delays,        \* the delays it has waited, in order (ms)
  connects,      \* calls of V1Client.connect it has made
  client,        \* the connection of the client last returned
  callerClosed,  \* the caller has called close() on the client it was given
  invocations,   \* calls of connectWithRetry so far
  \* ---- SDK streaming example (examples/stream-quotes-sdk.ts, streamQuotes)
  sdkPc,         \* where streamQuotes() stands
  sdkConn,       \* the connection of `client`: "none", "open", "closed"
  quoteCount,    \* its loop counter
  routeLines,    \* routes it has printed
  loopExit,      \* how the for-await loop was left: "none", "ended", "error"
  sdkCalls,      \* calls of stopStream and close made on `client`, in order
  sdkExit,       \* the code process.exit was called with (Null: running)
  \* ---- minimal example (examples/test-minimal.ts, testMinimal)
  minPc,         \* where testMinimal() stands
  count,         \* its loop counter
  printed,       \* quotesCount of the updates it has printed, in order
  minExit,       \* how its loop was left: "none", "break", "ended", "error"
  minCalls,      \* calls of stopStream and close made on `client`, in order
  \* ---- validateAmount (src/SKILL.md)
  amountInput,   \* the argument of the last call of validateAmount
  amountResult   \* what that call gave: a value, or an error thrown

proxyVars == <<pc, userToken, clientId, clientWs, closeCode, titanWs, dialResult,
               timer, connections, clientSent, upRecv, titanSent, downRecv, nFrames>>

rawVars == <<requestId, ws, activeStreamId, requests, closeTimers, nSigints, exited,
             decoded, handled, output, pending, streamState, lastSeq, prior>>

retryVars == <<retryPc, maxRetries, attempt, delays, connects, client,
               callerClosed, invocations>>

sdkVars == <<sdkPc, sdkConn, quoteCount, routeLines, loopExit, sdkCalls, sdkExit>>

minimalVars == <<minPc, count, printed, minExit, minCalls>>

amountVars == <<amountInput, amountResult>>

vars == <<proxyVars, rawVars, retryVars, sdkVars, minimalVars, amountVars>>

\* What an action of one program leaves alone: the variables of the others.
nonProxyVars == <<rawVars, retryVars, sdkVars, minimalVars, amountVars>>
nonRawVars == <<proxyVars, retryVars, sdkVars, minimalVars, amountVars>>
nonRetryVars == <<proxyVars, rawVars, sdkVars, minimalVars, amountVars>>
nonSdkVars == <<proxyVars, rawVars, retryVars, minimalVars, amountVars>>
nonMinimalVars == <<proxyVars, rawVars, retryVars, sdkVars, amountVars>>
nonAmountVars == <<proxyVars, rawVars, retryVars, sdkVars, minimalVars>>

\* --------------------------------------------------------------- proxy

\* validateUserToken: a missing or empty token, or one shorter than 10
\* characters, is refused; any other is accepted.
validateUserToken(token) ==
  IF token = NullToken \/ token = ""
    THEN [valid |-> FALSE, userId |-> ""]
    ELSE IF Len(token) < 10
      THEN [valid |-> FALSE, userId |-> ""]
      ELSE [valid |-> TRUE, userId |-> "user_" \o token]

\* WebSocket.close(code): starts the closing handshake of an open socket and
\* does nothing on a closing or closed one.
WsClose(ready) == IF ready = OPEN THEN CLOSING ELSE ready

\* A close() whose code replaces that of an earlier close().
WsCloseCodeLast(ready, old, code) == code

\* The close code the peer is sent: that of the first close() on the open socket.
WsCloseCode(ready, old, code) == IF ready = OPEN THEN code ELSE old

\* WebSocket.terminate(): destroys the socket; a socket still connecting or
\* open is left closing until its 'close' event.
WsTerminate(ready) == IF ready \in {CONNECTING, OPEN} THEN CLOSING ELSE ready

\* A continuation of an await whose promise is settled is queued as a
\* microtask: it runs before the event loop delivers another event.
MicrotaskPending(p) ==
  \/ pc[p] = "auth"
  \/ pc[p] = "dial" /\ dialResult[p] # "pending"

EventLoopIdle == \A p \in Peers : ~MicrotaskPending(p)

\* The listeners of lines 135-175 are installed (and never removed).
HandlersInstalled(p) == pc[p] = "relay"

ProxyInit ==
  /\ pc = [p \in Peers |-> "idle"]
  /\ userToken = [p \in Peers |-> NullToken]
  /\ clientId = [p \in Peers |-> 0]
  /\ clientWs = [p \in Peers |-> NoSocket]
  /\ closeCode = [p \in Peers |-> 0]
  /\ titanWs = [p \in Peers |-> NoSocket]
  /\ dialResult = [p \in Peers |-> "none"]
  /\ timer = [p \in Peers |-> FALSE]
  /\ connections = [k \in ClientIds |-> NoPeer]
  /\ clientSent = [p \in Peers |-> <<>>]
  /\ upRecv = [p \in Peers |-> <<>>]
  /\ titanSent = [p \in Peers |-> <<>>]
  /\ downRecv = [p \in Peers |-> <<>>]
  /\ nFrames = 0

\* Keys already drawn. clientId is Math.random().toString(36).substring(7):
\* only which keys are equal matters, so a key not drawn before is named by
\* the next unused number, and peers are numbered in their order of arrival.
KeysDrawn == {clientId[q] : q \in {r \in Peers : pc[r] # "idle"}}
FreshOrDrawn(id) == id \in KeysDrawn \/ id = Cardinality(KeysDrawn) + 1

\* wss.on("connection") -> handleClientConnection up to `await validateUserToken`.
Accept(p, token, id) ==
  /\ EventLoopIdle
  /\ pc[p] = "idle"
  /\ \A q \in Peers : q < p => pc[q] # "idle"
  /\ FreshOrDrawn(id)
  /\ pc' = [pc EXCEPT ![p] = "auth"]
  /\ userToken' = [userToken EXCEPT ![p] = token]
  /\ clientId' = [clientId EXCEPT ![p] = id]
  /\ clientWs' = [clientWs EXCEPT ![p] = OPEN]
  /\ UNCHANGED <<closeCode, titanWs, dialResult, timer, connections,
                 clientSent, upRecv, titanSent, downRecv, nFrames>>
  /\ UNCHANGED nonProxyVars

\* AuthCheck without the `return` after close(4001): the dial follows anyway.
AuthCheckNoReturn(p) ==
  /\ pc[p] = "auth"
  /\ IF ~validateUserToken(userToken[p]).valid
       THEN /\ clientWs' = [clientWs EXCEPT ![p] = WsClose(@)]
            /\ closeCode' = [closeCode EXCEPT ![p] = WsCloseCode(clientWs[p], @, 4001)]
       ELSE UNCHANGED <<clientWs, closeCode>>
  /\ titanWs' = [titanWs EXCEPT ![p] = CONNECTING]
  /\ dialResult' = [dialResult EXCEPT ![p] = "pending"]
  /\ timer' = [timer EXCEPT ![p] = TRUE]
  /\ pc' = [pc EXCEPT ![p] = "dial"]
  /\ UNCHANGED <<userToken, clientId, connections, clientSent, upRecv,
                 titanSent, downRecv, nFrames>>
  /\ UNCHANGED nonProxyVars

\* The continuation after validateUserToken: close 4001 and return, or call
\* connectToTitan (new WebSocket, the 10 s timer) and await it.
AuthCheck(p) ==
  /\ pc[p] = "auth"
  /\ IF ~validateUserToken(userToken[p]).valid
       THEN /\ clientWs' = [clientWs EXCEPT ![p] = WsClose(@)]
            /\ closeCode' = [closeCode EXCEPT ![p] = WsCloseCode(clientWs[p], @, 4001)]
            /\ pc' = [pc EXCEPT ![p] = "done"]
            /\ UNCHANGED <<titanWs, dialResult, timer>>
       ELSE /\ titanWs' = [titanWs EXCEPT ![p] = CONNECTING]
            /\ dialResult' = [dialResult EXCEPT ![p] = "pending"]
            /\ timer' = [timer EXCEPT ![p] = TRUE]
            /\ pc' = [pc EXCEPT ![p] = "dial"]
            /\ UNCHANGED <<clientWs, closeCode>>
  /\ UNCHANGED <<userToken, clientId, connections, clientSent, upRecv,
                 titanSent, downRecv, nFrames>>
  /\ UNCHANGED nonProxyVars

\* DialContinue without the `return` of the catch block: the pairing is
\* stored and the listeners installed after close(4002) as well.
DialContinueNoReturn(p) ==
  /\ pc[p] = "dial"
  /\ dialResult[p] # "pending"
  /\ IF dialResult[p] = "rejected"
       THEN /\ clientWs' = [clientWs EXCEPT ![p] = WsClose(@)]
            /\ closeCode' = [closeCode EXCEPT ![p] = WsCloseCode(clientWs[p], @, 4002)]
       ELSE UNCHANGED <<clientWs, closeCode>>
  /\ connections' = [connections EXCEPT ![clientId[p]] = p]
  /\ pc' = [pc EXCEPT ![p] = "relay"]
  /\ UNCHANGED <<userToken, clientId, titanWs, dialResult, timer,
                 clientSent, upRecv, titanSent, downRecv, nFrames>>
  /\ UNCHANGED nonProxyVars

\* The continuation after connectToTitan: on a rejection close 4002 and
\* return; otherwise store the pairing and install the listeners.
DialContinue(p) ==
  /\ pc[p] = "dial"
  /\ dialResult[p] # "pending"
  /\ IF dialResult[p] = "rejected"
       THEN /\ clientWs' = [clientWs EXCEPT ![p] = WsClose(@)]
            /\ closeCode' = [closeCode EXCEPT ![p] = WsCloseCode(clientWs[p], @, 4002)]
            /\ pc' = [pc EXCEPT ![p] = "done"]
            /\ UNCHANGED connections
       ELSE /\ connections' = [connections EXCEPT ![clientId[p]] = p]
            /\ pc' = [pc EXCEPT ![p] = "relay"]
            /\ UNCHANGED <<clientWs, closeCode>>
  /\ UNCHANGED <<userToken, clientId, titanWs, dialResult, timer,
                 clientSent, upRecv, titanSent, downRecv, nFrames>>
  /\ UNCHANGED nonProxyVars

\* A promise that a later resolve / reject settles again.
SettleLast(old, outcome) == outcome

\* resolve / reject settle the promise once; later calls do nothing.
Settle(old, outcome) == IF old = "pending" THEN outcome ELSE old

\* connectToTitan, ws.on("open"): the upstream socket opened.
TitanOpen(p) ==
  /\ EventLoopIdle
  /\ titanWs[p] = CONNECTING
  /\ titanWs' = [titanWs EXCEPT ![p] = OPEN]
  /\ dialResult' = [dialResult EXCEPT ![p] = Settle(@, "resolved")]
  /\ UNCHANGED <<pc, userToken, clientId, clientWs, closeCode, timer, connections,
                 clientSent, upRecv, titanSent, downRecv, nFrames>>
  /\ UNCHANGED nonProxyVars

\* connectToTitan, ws.on("error") while connecting: the dial failed.
TitanDialError(p) ==
  /\ EventLoopIdle
  /\ titanWs[p] = CONNECTING
  /\ titanWs' = [titanWs EXCEPT ![p] = CLOSED]
  /\ dialResult' = [dialResult EXCEPT ![p] = Settle(@, "rejected")]
  /\ UNCHANGED <<pc, userToken, clientId, clientWs, closeCode, timer, connections,
                 clientSent, upRecv, titanSent, downRecv, nFrames>>
  /\ UNCHANGED nonProxyVars

\* connectToTitan, the setTimeout callback (never cleared).
TimerFire(p) ==
  /\ EventLoopIdle
  /\ timer[p]
  /\ timer' = [timer EXCEPT ![p] = FALSE]
  /\ IF titanWs[p] # OPEN
       THEN /\ titanWs' = [titanWs EXCEPT ![p] = WsTerminate(@)]
            /\ dialResult' = [dialResult EXCEPT ![p] = Settle(@, "rejected")]
       ELSE UNCHANGED <<titanWs, dialResult>>
  /\ UNCHANGED <<pc, userToken, clientId, clientWs, closeCode, connections,
                 clientSent, upRecv, titanSent, downRecv, nFrames>>
  /\ UNCHANGED nonProxyVars

\* clientWs.on("message"): forward to upstream if it is open.
ForwardUp(p, f) ==
  IF HandlersInstalled(p) /\ titanWs[p] = OPEN THEN Append(upRecv[p], f) ELSE upRecv[p]

\* titanWs.on("message"): forward to the peer if its socket is open.
ForwardDown(p, f) ==
  IF HandlersInstalled(p) /\ clientWs[p] = OPEN THEN Append(downRecv[p], f) ELSE downRecv[p]

\* A forwarder that looks the pairing up in connections by its key instead
\* of using the sockets of its own closure.
PeerSendByKey(p, f) ==
  /\ EventLoopIdle
  /\ clientWs[p] = OPEN
  /\ nFrames < MaxFrames
  /\ f = nFrames + 1
  /\ nFrames' = nFrames + 1
  /\ clientSent' = [clientSent EXCEPT ![p] = Append(@, f)]
  /\ LET q == connections[clientId[p]] IN
       upRecv' = IF HandlersInstalled(p) /\ q # NoPeer /\ titanWs[q] = OPEN
                   THEN [upRecv EXCEPT ![q] = Append(@, f)]
                   ELSE upRecv
  /\ UNCHANGED <<pc, userToken, clientId, clientWs, closeCode, titanWs, dialResult,
                 timer, connections, titanSent, downRecv>>
  /\ UNCHANGED nonProxyVars

\* The peer sends a frame on its accepted connection.
PeerSend(p, f) ==
  /\ EventLoopIdle
  /\ clientWs[p] = OPEN
  /\ nFrames < MaxFrames
  /\ f = nFrames + 1
  /\ nFrames' = nFrames + 1
  /\ clientSent' = [clientSent EXCEPT ![p] = Append(@, f)]
  /\ upRecv' = [upRecv EXCEPT ![p] = ForwardUp(p, f)]
  /\ UNCHANGED <<pc, userToken, clientId, clientWs, closeCode, titanWs, dialResult,
                 timer, connections, titanSent, downRecv>>
  /\ UNCHANGED nonProxyVars

\* Upstream sends a frame on the open upstream socket.
TitanSend(p, f) ==
  /\ EventLoopIdle
  /\ titanWs[p] = OPEN
  /\ nFrames < MaxFrames
  /\ f = nFrames + 1
  /\ nFrames' = nFrames + 1
  /\ titanSent' = [titanSent EXCEPT ![p] = Append(@, f)]
  /\ downRecv' = [downRecv EXCEPT ![p] = ForwardDown(p, f)]
  /\ UNCHANGED <<pc, userToken, clientId, clientWs, closeCode, titanWs, dialResult,
                 timer, connections, clientSent, upRecv>>
  /\ UNCHANGED nonProxyVars

\* connections.delete(clientId)
MapDelete(p) == [connections EXCEPT ![clientId[p]] = NoPeer]

\* The peer's socket closed (the peer left, or the closing handshake ended):
\* clientWs.on("close") if installed.
ClientClosed(p) ==
  /\ EventLoopIdle
  /\ clientWs[p] \in {OPEN, CLOSING}
  /\ clientWs' = [clientWs EXCEPT ![p] = CLOSED]
  /\ IF HandlersInstalled(p)
       THEN /\ titanWs' = [titanWs EXCEPT ![p] = WsClose(@)]
            /\ connections' = MapDelete(p)
       ELSE UNCHANGED <<titanWs, connections>>
  /\ UNCHANGED <<pc, userToken, clientId, closeCode, dialResult, timer,
                 clientSent, upRecv, titanSent, downRecv, nFrames>>
  /\ UNCHANGED nonProxyVars

\* An error on the relaying peer's socket: clientWs.on("error").
ClientError(p) ==
  /\ EventLoopIdle
  /\ clientWs[p] = OPEN
  /\ HandlersInstalled(p)
  /\ clientWs' = [clientWs EXCEPT ![p] = CLOSING]
  /\ titanWs' = [titanWs EXCEPT ![p] = WsClose(@)]
  /\ connections' = MapDelete(p)
  /\ UNCHANGED <<pc, userToken, clientId, closeCode, dialResult, timer,
                 clientSent, upRecv, titanSent, downRecv, nFrames>>
  /\ UNCHANGED nonProxyVars

\* The upstream socket closed: titanWs.on("close") if installed.
TitanClosed(p) ==
  /\ EventLoopIdle
  /\ titanWs[p] \in {OPEN, CLOSING}
  /\ titanWs' = [titanWs EXCEPT ![p] = CLOSED]
  /\ IF HandlersInstalled(p)
       THEN /\ clientWs' = [clientWs EXCEPT ![p] = WsClose(@)]
            /\ closeCode' = [closeCode EXCEPT ![p] = WsCloseCode(clientWs[p], @, 4003)]
            /\ connections' = MapDelete(p)
       ELSE UNCHANGED <<clientWs, closeCode, connections>>
  /\ UNCHANGED <<pc, userToken, clientId, dialResult, timer,
                 clientSent, upRecv, titanSent, downRecv, nFrames>>
  /\ UNCHANGED nonProxyVars

\* An error on the open upstream socket: titanWs.on("error") if installed
\* (the reject listener of connectToTitan finds the promise settled).
TitanError(p) ==
  /\ EventLoopIdle
  /\ titanWs[p] = OPEN
  /\ HandlersInstalled(p)
  /\ titanWs' = [titanWs EXCEPT ![p] = CLOSING]
  /\ clientWs' = [clientWs EXCEPT ![p] = WsClose(@)]
  /\ closeCode' = [closeCode EXCEPT ![p] = WsCloseCode(clientWs[p], @, 4004)]
  /\ connections' = MapDelete(p)
  /\ UNCHANGED <<pc, userToken, clientId, dialResult, timer,
                 clientSent, upRecv, titanSent, downRecv, nFrames>>
  /\ UNCHANGED nonProxyVars

\* ---------------------------------------------------------- raw client

MaxSigints == 1      \* SIGINTs the process receives
MaxSeq == 1          \* largest seq a StreamData carries
MaxCalls == 4        \* calls of the request builders (BuilderSpec)

\* `null` of activeStreamId and of an absent field
Null == -1

StreamIds == {1, 2}
\* requestId values a server message may carry: ids the client issues, and one it never does
MsgRequestIds == {1, 2, 9}
Seqs == 0..MaxSeq
Tags == {"Response", "StreamData", "StreamEnd", "Error"}

\* nextRequestId: ++requestId, the new counter value is the id returned.
nextRequestIdPostIncrement(rid) == [requestId |-> rid + 1, value |-> rid]

nextRequestId(rid) == [requestId |-> rid + 1, value |-> rid + 1]

\* The environment of the raw client: the endpoint, the API token and the
\* wallet address (any three different strings).
WS_URL == "wss://titan.example/ws"
AUTH_TOKEN == "auth-token"
USER_PUBLIC_KEY == "user-public-key"

\* const wsUrl = `${WS_URL}?auth=${AUTH_TOKEN}`: the parts of the URL the
\* socket is opened with.
wsUrl == <<WS_URL, "?auth=", AUTH_TOKEN>>

\* The fields of data.NewSwapQuoteStream as ws.on("open") fills them.
StreamParams ==
  [inputMint |-> "USDC", outputMint |-> "SOL", amount |-> "10000000n",
   slippageBps |-> "50", userPublicKey |-> USER_PUBLIC_KEY,
   intervalMs |-> "1000", num_quotes |-> "3"]

\* StopStream carries only the stream id, GetInfo nothing.
NoParams == [f \in {} |-> ""]

\* A stream request that also carries the API token as a field.
createStreamRequestWithAuth(rid) ==
  [id |-> nextRequestId(rid).value, data |-> "NewSwapQuoteStream", stream |-> Null,
   params |-> [f \in DOMAIN StreamParams \cup {"auth"} |->
                 IF f = "auth" THEN AUTH_TOKEN ELSE StreamParams[f]]]

\* A request: its id, the name of the variant in data, the stream id of a
\* StopStream (Null otherwise) and the other fields of the variant.
createStreamRequest(rid) ==
  [id |-> nextRequestId(rid).value, data |-> "NewSwapQuoteStream", stream |-> Null,
   params |-> StreamParams]

createStopStreamRequest(rid, streamId) ==
  [id |-> nextRequestId(rid).value, data |-> "StopStream", stream |-> streamId,
   params |-> NoParams]

createGetInfoRequest(rid) ==
  [id |-> nextRequestId(rid).value, data |-> "GetInfo", stream |-> Null,
   params |-> NoParams]

\* A decoded server message: the tags whose value is present, and the fields
\* the handler reads of them (Null where the tag is absent):
\*   Response.requestId / Error.requestId, Response.stream.id (Null: no stream),
\*   StreamData.id / StreamEnd.id, StreamData.seq, StreamData.payload,
\*   StreamEnd.errorCode (Null: absent).
\* malformed: the bytes do not decode (decode throws).
Message(tags, rid, stream, id, seq, payload, errorCode) ==
  [malformed |-> FALSE, tags |-> tags, requestId |-> rid, stream |-> stream,
   id |-> id, seq |-> seq, payload |-> payload, errorCode |-> errorCode]

MalformedMessage ==
  [malformed |-> TRUE, tags |-> {}, requestId |-> Null, stream |-> Null,
   id |-> Null, seq |-> Null, payload |-> "none", errorCode |-> Null]

NoMessage ==
  [malformed |-> FALSE, tags |-> {"-"}, requestId |-> Null, stream |-> Null,
   id |-> Null, seq |-> Null, payload |-> "none", errorCode |-> Null]

ResponseMessages ==
  { Message({"Response"}, r, s, Null, Null, "none", Null) :
      r \in MsgRequestIds, s \in StreamIds \cup {Null} }
ErrorMessages ==
  { Message({"Error"}, r, Null, Null, Null, "none", Null) : r \in MsgRequestIds }
\* payload.SwapQuotes present, or (one message per stream) a payload without it
StreamDataMessages ==
  { Message({"StreamData"}, Null, Null, i, q, "SwapQuotes", Null) :
      i \in StreamIds, q \in Seqs }
  \cup { Message({"StreamData"}, Null, Null, i, 0, "other", Null) : i \in StreamIds }
StreamEndMessages ==
  { Message({"StreamEnd"}, Null, Null, i, Null, "none", e) :
      i \in StreamIds, e \in {Null, 500} }
\* A message with none of the four tags, and messages with several of them
\* (every pair of tags, and all four).
UntaggedMessage == Message({}, Null, Null, Null, Null, "none", Null)
MultiTagMessages ==
  { Message(t, 1, 2, 1, 0, "SwapQuotes", Null) :
      t \in {u \in SUBSET Tags : Cardinality(u) \in {2, 4}} }

Messages ==
  ResponseMessages \cup ErrorMessages \cup StreamDataMessages \cup StreamEndMessages
    \cup MultiTagMessages \cup {UntaggedMessage, MalformedMessage}

\* ws.on("message"): the state of one run of the handler: whether it has
\* returned, the branches entered, activeStreamId, and what was printed.
HandlerStart(active) ==
  [returned |-> FALSE, handled |-> <<>>, active |-> active, output |-> "none"]

\* if (decoded.Response) { ...; return; } without its `return`.
ResponseBranchNoReturn(st, msg) ==
  [st EXCEPT !.handled = Append(@, "Response"),
             !.active = IF msg.stream # Null THEN msg.stream ELSE @,
             !.output = "response"]

\* A Response branch that accepts a Response only if no request sent after
\* the one it answers is outstanding, and reports any other as unknown.
ResponseBranchLatestOnly(st, msg) ==
  IF \A r \in pending : msg.requestId >= r
    THEN [st EXCEPT !.returned = TRUE,
                    !.handled = Append(@, "Response"),
                    !.active = IF msg.stream # Null THEN msg.stream ELSE @,
                    !.output = "response"]
    ELSE [st EXCEPT !.returned = TRUE, !.output = "unknown-message"]

\* if (decoded.Response) { ...; return; }
ResponseBranch(st, msg) ==
  [st EXCEPT !.returned = TRUE,
             !.handled = Append(@, "Response"),
             !.active = IF msg.stream # Null THEN msg.stream ELSE @,
             !.output = "response"]

\* A StreamData branch that takes the stream of the data as the active one.
StreamDataBranchCreates(st, msg) ==
  [st EXCEPT !.returned = TRUE,
             !.handled = Append(@, "StreamData"),
             !.active = msg.id,
             !.output = IF msg.payload = "SwapQuotes" THEN "quote" ELSE "unknown-payload"]

\* if (decoded.StreamData) { ...; return; }
StreamDataBranch(st, msg) ==
  [st EXCEPT !.returned = TRUE,
             !.handled = Append(@, "StreamData"),
             !.output = IF msg.payload = "SwapQuotes" THEN "quote" ELSE "unknown-payload"]

\* if (decoded.StreamEnd) { ...; activeStreamId = null; return; }
StreamEndBranch(st, msg) ==
  [st EXCEPT !.returned = TRUE,
             !.handled = Append(@, "StreamEnd"),
             !.active = Null,
             !.output = IF msg.errorCode # Null THEN "stream-error" ELSE "stream-ended"]

\* if (decoded.Error) { ...; return; }
ErrorBranch(st, msg) ==
  [st EXCEPT !.returned = TRUE,
             !.handled = Append(@, "Error"),
             !.output = "request-error"]

\* One `if` of the chain: skipped once the handler has returned.
Branch(tag, st, msg) ==
  IF st.returned \/ tag \notin msg.tags THEN st
  ELSE IF tag = "Response" THEN ResponseBranch(st, msg)
  ELSE IF tag = "StreamData" THEN StreamDataBranch(st, msg)
  ELSE IF tag = "StreamEnd" THEN StreamEndBranch(st, msg)
  ELSE ErrorBranch(st, msg)

\* console.log("Unknown message type:", ...) when no branch returned.
UnknownBranch(st) ==
  IF st.returned THEN st ELSE [st EXCEPT !.returned = TRUE, !.output = "unknown-message"]

\* The handler without its try/catch: the exception of decode leaves the
\* handler, nothing is printed by it.
DispatchUncaught(active, msg) ==
  IF msg.malformed
    THEN [HandlerStart(active) EXCEPT !.returned = TRUE]
    ELSE UnknownBranch(
           Branch("Error",
             Branch("StreamEnd",
               Branch("StreamData",
                 Branch("Response", HandlerStart(active), msg), msg), msg), msg))

\* The handler of ws.on("message"): decode, then the branches in the order
\* Response, StreamData, StreamEnd, Error; a decode failure is caught and printed.
Dispatch(active, msg) ==
  IF msg.malformed
    THEN [HandlerStart(active) EXCEPT !.returned = TRUE, !.output = "decode-failed"]
    ELSE UnknownBranch(
           Branch("Error",
             Branch("StreamEnd",
               Branch("StreamData",
                 Branch("Response", HandlerStart(active), msg), msg), msg), msg))

RawInit ==
  /\ requestId = 0
  /\ ws = CONNECTING
  /\ activeStreamId = Null
  /\ requests = <<>>
  /\ closeTimers = 0
  /\ nSigints = 0
  /\ exited = FALSE
  /\ decoded = NoMessage
  /\ handled = <<>>
  /\ output = "none"
  /\ prior = [pending |-> FALSE, stream |-> "none", lastSeq |-> -1]
  /\ pending = {}
  /\ streamState = [i \in StreamIds |-> "none"]
  /\ lastSeq = [i \in StreamIds |-> -1]

\* ws.on("open"): build the stream request and send it.
RawOpen ==
  /\ ~exited
  /\ ws = CONNECTING
  /\ ws' = OPEN
  /\ requestId' = nextRequestId(requestId).requestId
  /\ requests' = Append(requests, createStreamRequest(requestId))
  /\ pending' = pending \cup {createStreamRequest(requestId).id}
  /\ UNCHANGED <<activeStreamId, closeTimers, nSigints, exited, decoded, handled,
                 output, streamState, lastSeq, prior>>
  /\ UNCHANGED nonRawVars

\* History: what the handled message did to the requests and streams of the
\* connection, read off the branches the handler entered.
PendingAfter(h, msg) ==
  IF \E k \in 1..Len(h) : h[k] \in {"Response", "Error"}
    THEN pending \ {msg.requestId} ELSE pending

StreamStateAfter(h, msg) ==
  [i \in StreamIds |->
     IF (\E k \in 1..Len(h) : h[k] = "StreamEnd") /\ msg.id = i THEN "ended"
     ELSE IF (\E k \in 1..Len(h) : h[k] = "Response") /\ msg.stream = i THEN "active"
     ELSE streamState[i]]

\* lastSeq is kept for the active streams only.
LastSeqAfter(h, msg) ==
  [i \in StreamIds |->
     IF StreamStateAfter(h, msg)[i] # "active" THEN -1
     ELSE IF (\E k \in 1..Len(h) : h[k] = "StreamData") /\ msg.id = i THEN msg.seq
     ELSE IF streamState[i] # "active" THEN -1
     ELSE lastSeq[i]]

PriorOf(msg) ==
  [pending |-> msg.requestId \in pending,
   stream |-> IF msg.id \in StreamIds THEN streamState[msg.id] ELSE "none",
   lastSeq |-> IF msg.id \in StreamIds THEN lastSeq[msg.id] ELSE -1]

\* ws.on("message")
OnMessage(msg) ==
  /\ ~exited
  /\ ws \in {OPEN, CLOSING}
  /\ LET st == Dispatch(activeStreamId, msg) IN
       /\ decoded' = msg
       /\ handled' = st.handled
       /\ output' = st.output
       /\ activeStreamId' = st.active
       /\ pending' = PendingAfter(st.handled, msg)
       /\ streamState' = StreamStateAfter(st.handled, msg)
       /\ lastSeq' = LastSeqAfter(st.handled, msg)
  /\ prior' = PriorOf(msg)
  /\ UNCHANGED <<requestId, ws, requests, closeTimers, nSigints, exited>>
  /\ UNCHANGED nonRawVars

\* A SIGINT handler that sends StopStream without looking at readyState.
SigintNoOpenCheck ==
  /\ ~exited
  /\ nSigints < MaxSigints
  /\ nSigints' = nSigints + 1
  /\ IF activeStreamId # Null
       THEN /\ requestId' = nextRequestId(requestId).requestId
            /\ requests' = Append(requests, createStopStreamRequest(requestId, activeStreamId))
            /\ pending' = pending \cup {createStopStreamRequest(requestId, activeStreamId).id}
       ELSE UNCHANGED <<requestId, requests, pending>>
  /\ closeTimers' = closeTimers + 1
  /\ UNCHANGED <<ws, activeStreamId, exited, decoded, handled, output,
                 streamState, lastSeq, prior>>
  /\ UNCHANGED nonRawVars

\* A SIGINT handler that takes the stream as ended once StopStream is sent.
SigintEndsStream ==
  /\ ~exited
  /\ nSigints < MaxSigints
  /\ nSigints' = nSigints + 1
  /\ IF activeStreamId # Null /\ ws = OPEN
       THEN /\ requestId' = nextRequestId(requestId).requestId
            /\ requests' = Append(requests, createStopStreamRequest(requestId, activeStreamId))
            /\ pending' = pending \cup {createStopStreamRequest(requestId, activeStreamId).id}
            /\ activeStreamId' = Null
       ELSE UNCHANGED <<requestId, requests, pending, activeStreamId>>
  /\ closeTimers' = closeTimers + 1
  /\ UNCHANGED <<ws, exited, decoded, handled, output, streamState, lastSeq, prior>>
  /\ UNCHANGED nonRawVars

\* process.on("SIGINT"): send StopStream for the active stream if the socket
\* is open, and schedule ws.close() in 500 ms.
Sigint ==
  /\ ~exited
  /\ nSigints < MaxSigints
  /\ nSigints' = nSigints + 1
  /\ IF activeStreamId # Null /\ ws = OPEN
       THEN /\ requestId' = nextRequestId(requestId).requestId
            /\ requests' = Append(requests, createStopStreamRequest(requestId, activeStreamId))
            /\ pending' = pending \cup {createStopStreamRequest(requestId, activeStreamId).id}
       ELSE UNCHANGED <<requestId, requests, pending>>
  /\ closeTimers' = closeTimers + 1
  /\ UNCHANGED <<ws, activeStreamId, exited, decoded, handled, output,
                 streamState, lastSeq, prior>>
  /\ UNCHANGED nonRawVars

\* setTimeout(() => ws.close(), 500)
CloseTimerFire ==
  /\ ~exited
  /\ closeTimers > 0
  /\ closeTimers' = closeTimers - 1
  /\ ws' = IF ws \in {CONNECTING, OPEN} THEN CLOSING ELSE ws
  /\ UNCHANGED <<requestId, activeStreamId, requests, nSigints, exited, decoded,
                 handled, output, pending, streamState, lastSeq, prior>>
  /\ UNCHANGED nonRawVars

\* ws.on("error"): printed; the socket is on its way to closed.
RawError ==
  /\ ~exited
  /\ ws \in {CONNECTING, OPEN}
  /\ ws' = CLOSING
  /\ UNCHANGED <<requestId, activeStreamId, requests, closeTimers, nSigints, exited,
                 decoded, handled, output, pending, streamState, lastSeq, prior>>
  /\ UNCHANGED nonRawVars

\* ws.on("close"): process.exit(0)
RawClosed ==
  /\ ~exited
  /\ ws # CLOSED
  /\ ws' = CLOSED
  /\ exited' = TRUE
  /\ UNCHANGED <<requestId, activeStreamId, requests, closeTimers, nSigints,
                 decoded, handled, output, pending, streamState, lastSeq, prior>>
  /\ UNCHANGED nonRawVars

\* ------------------------------------------------- the request builders

\* A call of one of the three builders, in any order.
CallCreateStreamRequest ==
  /\ Len(requests) < MaxCalls
  /\ requestId' = nextRequestId(requestId).requestId
  /\ requests' = Append(requests, createStreamRequest(requestId))
  /\ UNCHANGED <<ws, activeStreamId, closeTimers, nSigints, exited, decoded, handled,
                 output, pending, streamState, lastSeq, prior>>
  /\ UNCHANGED nonRawVars

CallCreateStopStreamRequest(streamId) ==
  /\ Len(requests) < MaxCalls
  /\ requestId' = nextRequestId(requestId).requestId
  /\ requests' = Append(requests, createStopStreamRequest(requestId, streamId))
  /\ UNCHANGED <<ws, activeStreamId, closeTimers, nSigints, exited, decoded, handled,
                 output, pending, streamState, lastSeq, prior>>
  /\ UNCHANGED nonRawVars

CallCreateGetInfoRequest ==
  /\ Len(requests) < MaxCalls
  /\ requestId' = nextRequestId(requestId).requestId
  /\ requests' = Append(requests, createGetInfoRequest(requestId))
  /\ UNCHANGED <<ws, activeStreamId, closeTimers, nSigints, exited, decoded, handled,
                 output, pending, streamState, lastSeq, prior>>
  /\ UNCHANGED nonRawVars

\* ------------------------------------------------ reconnection pattern

MaxRetriesArg == 6   \* largest maxRetries connectWithRetry is called with
MaxInvocations == 2  \* calls of connectWithRetry, the reconnections included

BaseDelayMs == 1000
CapDelayMs == 30000
DefaultMaxRetries == 5

Min(a, b) == IF a < b THEN a ELSE b

\* const delay = Math.min(1000 * Math.pow(2, attempt), 30000)
delay(a) == Min(BaseDelayMs * 2^a, CapDelayMs)

\* while (attempt <= maxRetries)
LoopConditionInclusive(a, m) == a <= m

\* while (attempt < maxRetries)
LoopCondition(a, m) == a < m

RetryInit ==
  /\ retryPc = "not-called"
  /\ maxRetries = 0
  /\ attempt = 0
  /\ delays = <<>>
  /\ connects = 0
  /\ client = "none"
  /\ callerClosed = FALSE
  /\ invocations = 0

\* The top of the loop with attempt = a: call V1Client.connect and await it,
\* or leave the loop and throw "Max retries exceeded".
LoopTop(a, m) ==
  IF LoopCondition(a, m)
    THEN /\ retryPc' = "connecting"
         /\ connects' = connects + 1
    ELSE /\ retryPc' = "thrown"
         /\ UNCHANGED connects

\* connectWithRetry(m) up to its first await: attempt = 0 and the loop test.
connectWithRetry(m) ==
  /\ maxRetries' = m
  /\ attempt' = 0
  /\ delays' = <<>>
  /\ invocations' = invocations + 1
  /\ IF LoopCondition(0, m)
       THEN /\ retryPc' = "connecting"
            /\ connects' = 1
       ELSE /\ retryPc' = "thrown"
            /\ connects' = 0

\* The application calls connectWithRetry(m).
CallConnectWithRetry(m) ==
  /\ retryPc = "not-called"
  /\ connectWithRetry(m)
  /\ UNCHANGED <<client, callerClosed>>
  /\ UNCHANGED nonRetryVars

\* V1Client.connect resolved: listen_closed().then(...) is registered and the
\* client returned.
ConnectResolves ==
  /\ retryPc = "connecting"
  /\ retryPc' = "returned"
  /\ client' = "open"
  /\ UNCHANGED <<maxRetries, attempt, delays, connects, callerClosed, invocations>>
  /\ UNCHANGED nonRetryVars

\* V1Client.connect rejected: attempt++, compute the delay, await the timer.
ConnectRejects ==
  /\ retryPc = "connecting"
  /\ attempt' = attempt + 1
  /\ delays' = Append(delays, delay(attempt + 1))
  /\ retryPc' = "sleeping"
  /\ UNCHANGED <<maxRetries, connects, client, callerClosed, invocations>>
  /\ UNCHANGED nonRetryVars

\* The timer of the delay fired: back to the top of the loop.
DelayElapsed ==
  /\ retryPc = "sleeping"
  /\ LoopTop(attempt, maxRetries)
  /\ UNCHANGED <<maxRetries, attempt, delays, client, callerClosed, invocations>>
  /\ UNCHANGED nonRetryVars

\* The caller closes the client connectWithRetry returned to it
\* (await client.close()); the clients of the reconnections are returned to
\* nobody.
CallerCloses ==
  /\ client = "open"
  /\ invocations = 1
  /\ client' = "closing"
  /\ callerClosed' = TRUE
  /\ UNCHANGED <<retryPc, maxRetries, attempt, delays, connects, invocations>>
  /\ UNCHANGED nonRetryVars

\* The connection closed (lost, or closed by the caller): the promise of
\* listen_closed() resolves and its callback calls connectWithRetry().
ListenClosed ==
  /\ client \in {"open", "closing"}
  /\ invocations < MaxInvocations
  /\ client' = "closed"
  /\ connectWithRetry(DefaultMaxRetries)
  /\ UNCHANGED callerClosed
  /\ UNCHANGED nonRetryVars

\* ------------------------------------------------ SDK streaming example
\* examples/stream-quotes-sdk.ts.  The SDK itself is not part of the
\* repository: a call of it is a promise that the SDK settles later, either
\* way (SKILL.md, "SDK Error Types": ConnectionClosed, ConnectionError,
\* ErrorResponse, StreamError, ProtocolError).

MaxQuotes == 3   \* quotes messages the stream yields before it ends
MaxRoutes == 2   \* routes in one quotes message

\* USER_PUBLIC_KEY as the environment gives it: unset, not base58, base58 of
\* another length than 32 bytes, or a 32-byte address.
KeyInputs == {"unset", "not-base58", "short", "valid"}

\* validateConfig(): TRUE when it returns, FALSE when it throws
validateConfig(url, token, key) ==
  IF ~url THEN FALSE
  ELSE IF ~token THEN FALSE
  ELSE IF key = "unset" THEN FALSE
  ELSE IF key = "not-base58" THEN FALSE      \* bs58.decode throws
  ELSE IF key = "short" THEN FALSE           \* decoded.length !== 32
  ELSE TRUE

SdkInit ==
  /\ sdkPc = "start"
  /\ sdkConn = "none"
  /\ quoteCount = 0
  /\ routeLines = 0
  /\ loopExit = "none"
  /\ sdkCalls = << >>
  /\ sdkExit = Null

\* streamQuotes().catch((error) => { ...; process.exit(1) })
Fatal ==
  /\ sdkPc' = "fatal"
  /\ sdkExit' = 1

\* streamQuotes() up to `await V1Client.connect(...)`
StartStreamQuotes(url, token, key) ==
  /\ sdkPc = "start"
  /\ sdkExit = Null
  /\ IF validateConfig(url, token, key)
       THEN sdkPc' = "connecting" /\ sdkExit' = sdkExit
       ELSE Fatal
  /\ UNCHANGED <<sdkConn, quoteCount, routeLines, loopExit, sdkCalls>>
  /\ UNCHANGED nonSdkVars

\* connect resolves: listen_closed().then(...) is registered and
\* newSwapQuoteStream is called
SdkConnectResolves ==
  /\ sdkPc = "connecting"
  /\ sdkExit = Null
  /\ sdkPc' = "opening"
  /\ sdkConn' = "open"
  /\ UNCHANGED <<quoteCount, routeLines, loopExit, sdkCalls, sdkExit>>
  /\ UNCHANGED nonSdkVars

SdkConnectRejects ==
  /\ sdkPc = "connecting"
  /\ sdkExit = Null
  /\ Fatal
  /\ UNCHANGED <<sdkConn, quoteCount, routeLines, loopExit, sdkCalls>>
  /\ UNCHANGED nonSdkVars

\* newSwapQuoteStream resolves: let quoteCount = 0, the loop awaits the stream
NewSwapQuoteStreamResolves ==
  /\ sdkPc = "opening"
  /\ sdkExit = Null
  /\ sdkPc' = "streaming"
  /\ quoteCount' = 0
  /\ UNCHANGED <<sdkConn, routeLines, loopExit, sdkCalls, sdkExit>>
  /\ UNCHANGED nonSdkVars

NewSwapQuoteStreamRejects ==
  /\ sdkPc = "opening"
  /\ sdkExit = Null
  /\ Fatal
  /\ UNCHANGED <<sdkConn, quoteCount, routeLines, loopExit, sdkCalls>>
  /\ UNCHANGED nonSdkVars

\* finally { await client.stopStream(streamId); ... }: the call is made as
\* the loop is left, in the same turn
EnterFinally(how) ==
  /\ loopExit' = how
  /\ sdkCalls' = Append(sdkCalls, "stopStream")
  /\ sdkPc' = "stopping"

\* one turn of `for await (const quotes of stream)` with n routes
Quotes(n) ==
  /\ sdkPc = "streaming"
  /\ sdkExit = Null
  /\ quoteCount < MaxQuotes
  /\ quoteCount' = quoteCount + 1
  /\ routeLines' = IF n = 0 THEN routeLines      \* continue
                   ELSE routeLines + n
  /\ UNCHANGED <<sdkPc, sdkConn, loopExit, sdkCalls, sdkExit>>
  /\ UNCHANGED nonSdkVars

\* the iterator is done: the loop is left normally
StreamEnds ==
  /\ sdkPc = "streaming"
  /\ sdkExit = Null
  /\ EnterFinally("ended")
  /\ UNCHANGED <<sdkConn, quoteCount, routeLines, sdkExit>>
  /\ UNCHANGED nonSdkVars

\* the iterator rejects: catch (error) logs it, then finally
StreamThrows ==
  /\ sdkPc = "streaming"
  /\ sdkExit = Null
  /\ EnterFinally("error")
  /\ UNCHANGED <<sdkConn, quoteCount, routeLines, sdkExit>>
  /\ UNCHANGED nonSdkVars

\* stopStream resolves (its answer came over the open connection):
\* await client.close()
StopStreamResolves ==
  /\ sdkPc = "stopping"
  /\ sdkExit = Null
  /\ sdkConn = "open"
  /\ sdkCalls' = Append(sdkCalls, "close")
  /\ sdkPc' = "closing"
  /\ UNCHANGED <<sdkConn, quoteCount, routeLines, loopExit, sdkExit>>
  /\ UNCHANGED nonSdkVars

\* stopStream rejects: the finally block is left by the exception, which
\* rejects streamQuotes()
StopStreamRejects ==
  /\ sdkPc = "stopping"
  /\ sdkExit = Null
  /\ Fatal
  /\ UNCHANGED <<sdkConn, quoteCount, routeLines, loopExit, sdkCalls>>
  /\ UNCHANGED nonSdkVars

\* close resolves: console.log("Done"), streamQuotes() returns
CloseResolves ==
  /\ sdkPc = "closing"
  /\ sdkExit = Null
  /\ sdkPc' = "done"
  /\ sdkConn' = "closed"
  /\ UNCHANGED <<quoteCount, routeLines, loopExit, sdkCalls, sdkExit>>
  /\ UNCHANGED nonSdkVars

CloseRejects ==
  /\ sdkPc = "closing"
  /\ sdkExit = Null
  /\ Fatal
  /\ UNCHANGED <<sdkConn, quoteCount, routeLines, loopExit, sdkCalls>>
  /\ UNCHANGED nonSdkVars

\* the server or the network ends the connection
ConnectionLost ==
  /\ sdkConn = "open"
  /\ sdkExit = Null
  /\ sdkConn' = "closed"
  /\ UNCHANGED <<sdkPc, quoteCount, routeLines, loopExit, sdkCalls, sdkExit>>
  /\ UNCHANGED nonSdkVars

\* client.listen_closed().then(() => { ...; process.exit(0) })
SdkListenClosed ==
  /\ sdkConn = "closed"
  /\ sdkExit = Null
  /\ sdkExit' = 0
  /\ UNCHANGED <<sdkPc, sdkConn, quoteCount, routeLines, loopExit, sdkCalls>>
  /\ UNCHANGED nonSdkVars

\* process.on("SIGINT", () => { ...; process.exit(0) }); no signal is handled
\* before the module's own code, streamQuotes() included, has run
SdkSigint ==
  /\ sdkExit = Null
  /\ sdkPc # "start"
  /\ sdkExit' = 0
  /\ UNCHANGED <<sdkPc, sdkConn, quoteCount, routeLines, loopExit, sdkCalls>>
  /\ UNCHANGED nonSdkVars

\* ------------------------------------------------------ minimal example
\* examples/test-minimal.ts, testMinimal().  A call of the SDK is a promise
\* that the SDK settles either way; a rejection that no try block catches
\* rejects testMinimal(), which the last line logs (catch(console.error)).

QuoteLimit == 5

MinimalInit ==
  /\ minPc = "connecting"
  /\ count = 0
  /\ printed = << >>
  /\ minExit = "none"
  /\ minCalls = << >>

\* V1Client.connect resolves: client.newSwapQuoteStream is called
MinConnectResolves ==
  /\ minPc = "connecting"
  /\ minPc' = "opening"
  /\ UNCHANGED <<count, printed, minExit, minCalls>>
  /\ UNCHANGED nonMinimalVars

MinConnectRejects ==
  /\ minPc = "connecting"
  /\ minPc' = "rejected"
  /\ UNCHANGED <<count, printed, minExit, minCalls>>
  /\ UNCHANGED nonMinimalVars

\* newSwapQuoteStream resolves: let count = 0, the loop awaits the stream
MinStreamResolves ==
  /\ minPc = "opening"
  /\ minPc' = "streaming"
  /\ count' = 0
  /\ UNCHANGED <<printed, minExit, minCalls>>
  /\ UNCHANGED nonMinimalVars

MinStreamRejects ==
  /\ minPc = "opening"
  /\ minPc' = "rejected"
  /\ UNCHANGED <<count, printed, minExit, minCalls>>
  /\ UNCHANGED nonMinimalVars

\* if (count >= 5)
LimitReached(c) == c >= QuoteLimit

\* one turn of the loop with an update of n routes: count++, the update is
\* printed, and at the limit stopStream is called
MinQuotes(n) ==
  /\ minPc = "streaming"
  /\ count' = count + 1
  /\ printed' = Append(printed, n)
  /\ IF LimitReached(count')
       THEN /\ minCalls' = Append(minCalls, "stopStream")
            /\ minPc' = "stopping"
       ELSE UNCHANGED <<minCalls, minPc>>
  /\ UNCHANGED minExit
  /\ UNCHANGED nonMinimalVars

\* stopStream resolves: break, then await client.close()
MinStopResolves ==
  /\ minPc = "stopping"
  /\ minExit' = "break"
  /\ minCalls' = Append(minCalls, "close")
  /\ minPc' = "closing"
  /\ UNCHANGED <<count, printed>>
  /\ UNCHANGED nonMinimalVars

\* stopStream rejects: the loop is left by the exception
MinStopRejects ==
  /\ minPc = "stopping"
  /\ minExit' = "error"
  /\ minPc' = "rejected"
  /\ UNCHANGED <<count, printed, minCalls>>
  /\ UNCHANGED nonMinimalVars

\* the stream ends without an error code: the loop is left normally, then
\* await client.close()
MinStreamEnds ==
  /\ minPc = "streaming"
  /\ minExit' = "ended"
  /\ minCalls' = Append(minCalls, "close")
  /\ minPc' = "closing"
  /\ UNCHANGED <<count, printed>>
  /\ UNCHANGED nonMinimalVars

\* the stream ends with an error code (StreamError) or the connection is
\* lost (ConnectionClosed): the iterator rejects, the loop is left by the
\* exception
MinStreamThrows ==
  /\ minPc = "streaming"
  /\ minExit' = "error"
  /\ minPc' = "rejected"
  /\ UNCHANGED <<count, printed, minCalls>>
  /\ UNCHANGED nonMinimalVars

\* close resolves: testMinimal() returns
MinCloseResolves ==
  /\ minPc = "closing"
  /\ minPc' = "done"
  /\ UNCHANGED <<count, printed, minExit, minCalls>>
  /\ UNCHANGED nonMinimalVars

MinCloseRejects ==
  /\ minPc = "closing"
  /\ minPc' = "rejected"
  /\ UNCHANGED <<count, printed, minExit, minCalls>>
  /\ UNCHANGED nonMinimalVars

\* ------------------------------------------------------- validateAmount
\* SKILL.md, "Token amounts".  The widths are scaled down together, since
\* the model checker's integers have 32 bits: an amount has UintBits bits
\* for the 64 of the source, the mantissa of a number has MantissaBits bits
\* for the 53 of a double, so that, as in the source, the largest amount is
\* not a number and the numbers near it are spaced more than 1 apart.

UintBits == 6       \* width of an amount (64 in the source)
MantissaBits == 4   \* bits of the mantissa of a number (53 in a double)
FracBits == 2       \* smallest exponent of a number is -FracBits
BigSlack == 3       \* bigints tried reach this far outside the range

\* const UINT64_MAX = BigInt("18446744073709551615"); // 2^64 - 1
UINT64_MAX == 2^UintBits - 1

MaxMantissa == 2^MantissaBits - 1

\* An input of validateAmount(input: number | bigint): a bigint m, a finite
\* number m * 2^e, or one of the numbers NaN, Infinity, -Infinity.
AmountInputs ==
  [kind : {"bigint"}, m : (0 - BigSlack)..(UINT64_MAX + BigSlack), e : {0}]
  \cup [kind : {"number"}, m : (0 - MaxMantissa)..MaxMantissa,
        e : (0 - FracBits)..UintBits]
  \cup [kind : {"NaN", "Infinity", "-Infinity"}, m : {0}, e : {0}]

NoInput == [kind |-> "none", m |-> 0, e |-> 0]

Thrown == [ok |-> FALSE, value |-> 0]
Returned(amount) == [ok |-> TRUE, value |-> amount]

\* typeof input === "number"
TypeofNumber(input) == input.kind # "bigint"

\* Number.isInteger(input): finite and without a fractional part
NumberIsInteger(input) ==
  /\ input.kind = "number"
  /\ (input.e >= 0 \/ input.m % 2^(0 - input.e) = 0)

\* BigInt(input), for a bigint or a number that is an integer: its value
BigInt(input) ==
  IF input.kind = "bigint" THEN input.m
  ELSE IF input.e >= 0 THEN input.m * 2^input.e
  ELSE input.m \div 2^(0 - input.e)

\* The mutant of OutOfRange: amount >= UINT64_MAX.
OutOfRangeAtMax(amount) == amount < 0 \/ amount >= UINT64_MAX

\* amount < 0n || amount > UINT64_MAX
OutOfRange(amount) == amount < 0 \/ amount > UINT64_MAX

validateAmount(input) ==
  IF TypeofNumber(input) /\ ~NumberIsInteger(input) THEN Thrown
  ELSE LET amount == BigInt(input)
       IN IF OutOfRange(amount) THEN Thrown ELSE Returned(amount)

AmountInit ==
  /\ amountInput = NoInput
  /\ amountResult = Thrown

\* a call validateAmount(input); the result is kept
CallValidateAmount(input) ==
  /\ amountInput' = input
  /\ amountResult' = validateAmount(input)
  /\ UNCHANGED nonAmountVars

\* ------------------------------------------------------- specifications

Init == ProxyInit /\ RawInit /\ RetryInit /\ SdkInit /\ MinimalInit
        /\ AmountInit

ProxyNext ==
  \/ \E p \in RelayPeers, token \in Tokens, id \in ClientIds : Accept(p, token, id)
  \/ \E p \in RelayPeers : AuthCheck(p)
  \/ \E p \in RelayPeers : DialContinue(p)
  \/ \E p \in RelayPeers : TitanOpen(p)
  \/ \E p \in RelayPeers : TitanDialError(p)
  \/ \E p \in RelayPeers : TimerFire(p)
  \/ \E p \in RelayPeers, f \in Frames : PeerSend(p, f)
  \/ \E p \in RelayPeers, f \in Frames : TitanSend(p, f)
  \/ \E p \in RelayPeers : ClientClosed(p)
  \/ \E p \in RelayPeers : ClientError(p)
  \/ \E p \in RelayPeers : TitanClosed(p)
  \/ \E p \in RelayPeers : TitanError(p)

ProxySpec == Init /\ [][ProxyNext]_vars

\* Two peers connect and relay at the same time.
PairPeers == {1, 2}

PairNext ==
  \/ \E p \in PairPeers, token \in Tokens, id \in ClientIds : Accept(p, token, id)
  \/ \E p \in PairPeers : AuthCheck(p)
  \/ \E p \in PairPeers : DialContinue(p)
  \/ \E p \in PairPeers : TitanOpen(p)
  \/ \E p \in PairPeers : TitanDialError(p)
  \/ \E p \in PairPeers : TimerFire(p)
  \/ \E p \in PairPeers, f \in Frames : PeerSend(p, f)
  \/ \E p \in PairPeers, f \in Frames : TitanSend(p, f)
  \/ \E p \in PairPeers : ClientClosed(p)
  \/ \E p \in PairPeers : ClientError(p)
  \/ \E p \in PairPeers : TitanClosed(p)
  \/ \E p \in PairPeers : TitanError(p)

PairSpec == Init /\ [][PairNext]_vars

\* The dials of two peers, without the frames. The continuation of an await
\* runs once its promise is settled and a timer that was set fires.
DialNext ==
  \/ \E p \in PairPeers, token \in Tokens, id \in ClientIds : Accept(p, token, id)
  \/ \E p \in PairPeers : AuthCheck(p)
  \/ \E p \in PairPeers : DialContinue(p)
  \/ \E p \in PairPeers : TitanOpen(p)
  \/ \E p \in PairPeers : TitanDialError(p)
  \/ \E p \in PairPeers : TimerFire(p)
  \/ \E p \in PairPeers : ClientClosed(p)
  \/ \E p \in PairPeers : ClientError(p)
  \/ \E p \in PairPeers : TitanClosed(p)
  \/ \E p \in PairPeers : TitanError(p)

DialFairness ==
  \A p \in PairPeers :
    /\ WF_vars(AuthCheck(p))
    /\ WF_vars(DialContinue(p))
    /\ WF_vars(TimerFire(p))

DialSpec == Init /\ [][DialNext]_vars /\ DialFairness

RawNext ==
  \/ RawOpen
  \/ \E msg \in Messages : OnMessage(msg)
  \/ Sigint
  \/ CloseTimerFire
  \/ RawError
  \/ RawClosed

RawSpec == Init /\ [][RawNext]_vars

BuilderNext ==
  \/ CallCreateStreamRequest
  \/ \E streamId \in StreamIds : CallCreateStopStreamRequest(streamId)
  \/ CallCreateGetInfoRequest

BuilderSpec == Init /\ [][BuilderNext]_vars

RetryNext ==
  \/ \E m \in 0..MaxRetriesArg : CallConnectWithRetry(m)
  \/ ConnectResolves
  \/ ConnectRejects
  \/ DelayElapsed
  \/ CallerCloses
  \/ ListenClosed

RetrySpec == Init /\ [][RetryNext]_vars

SdkNext ==
  \/ \E url, token \in BOOLEAN, key \in KeyInputs : StartStreamQuotes(url, token, key)
  \/ SdkConnectResolves
  \/ SdkConnectRejects
  \/ NewSwapQuoteStreamResolves
  \/ NewSwapQuoteStreamRejects
  \/ \E n \in 0..MaxRoutes : Quotes(n)
  \/ StreamEnds
  \/ StreamThrows
  \/ StopStreamResolves
  \/ StopStreamRejects
  \/ CloseResolves
  \/ CloseRejects
  \/ ConnectionLost
  \/ SdkListenClosed
  \/ SdkSigint

SdkSpec == Init /\ [][SdkNext]_vars

MinimalNext ==
  \/ MinConnectResolves
  \/ MinConnectRejects
  \/ MinStreamResolves
  \/ MinStreamRejects
  \/ \E n \in 0..MaxRoutes : MinQuotes(n)
  \/ MinStopResolves
  \/ MinStopRejects
  \/ MinStreamEnds
  \/ MinStreamThrows
  \/ MinCloseResolves
  \/ MinCloseRejects

MinimalSpec == Init /\ [][MinimalNext]_vars

AmountNext == \E input \in AmountInputs : CallValidateAmount(input)

AmountSpec == Init /\ [][AmountNext]_vars

\* ------------------------------------------------------- proxy: claims

Connected(p) == pc[p] # "idle"
Authorized(p) == Connected(p) /\ validateUserToken(userToken[p]).valid
AuthDone(p) == pc[p] \notin {"idle", "auth"}
Dialed(p) == titanWs[p] # NoSocket
\* The pairing of p is stored in connections.
Registered(p) == Connected(p) /\ connections[clientId[p]] = p

\* C1: an upstream socket exists for a peer only once its authorization check
\* has completed and passed; a peer whose check failed has been sent close
\* code 4001, its handler has returned and no upstream socket was created.
C1_AuthBeforeDial ==
  \A p \in Peers :
    /\ Dialed(p) => AuthDone(p) /\ Authorized(p)
    /\ (AuthDone(p) /\ ~Authorized(p)) =>
          /\ closeCode[p] = 4001
          /\ clientWs[p] \in {CLOSING, CLOSED}
          /\ pc[p] = "done"
          /\ ~Dialed(p)

C1_Witness ==
  \E p \in Peers : AuthDone(p) /\ ~Authorized(p) /\ clientWs[p] = CLOSED

\* C2: for an authorized peer whose pairing relays with both sockets open,
\* the frames that reached upstream are the frames the peer sent, in order,
\* and the frames that reached the peer are those upstream sent, in order.
C2_RelayFidelity ==
  \A p \in Peers :
    (Authorized(p) /\ pc[p] = "relay" /\ clientWs[p] = OPEN /\ titanWs[p] = OPEN) =>
      /\ upRecv[p] = clientSent[p]
      /\ downRecv[p] = titanSent[p]

\* C3: no pairing is stored in connections with one of its sockets closed.
C3_NoHalfClosedEntry ==
  \A p \in Peers :
    Registered(p) => clientWs[p] # CLOSED /\ titanWs[p] # CLOSED

\* The state of a peer in the proxy's state machine.
Phase(p) ==
  IF ~Connected(p) THEN "None"
  ELSE IF Registered(p) THEN "Relaying"
  ELSE IF clientWs[p] # OPEN THEN "Closed"
  ELSE IF pc[p] = "auth" THEN "Connecting"
  ELSE IF pc[p] = "dial" THEN "AwaitingUpstream"
  ELSE "Relaying"

PhaseMoves ==
  { <<"None", "Connecting">>,
    <<"Connecting", "AwaitingUpstream">>,
    <<"AwaitingUpstream", "Relaying">>,
    <<"Connecting", "Closed">>,
    <<"AwaitingUpstream", "Closed">>,
    <<"Relaying", "Closed">> }

\* C4: a peer moves only along Connecting -> AwaitingUpstream -> Relaying ->
\* Closed, Closed being reachable from each earlier state and never left;
\* AwaitingUpstream is entered only with authorization passed and Relaying
\* only with the upstream socket open.
C4_PeerStateMachine ==
  [][\A p \in Peers :
       Phase(p)' # Phase(p) =>
         /\ <<Phase(p), Phase(p)'>> \in PhaseMoves
         /\ Phase(p)' = "AwaitingUpstream" => Authorized(p)'
         /\ Phase(p)' = "Relaying" => titanWs'[p] = OPEN]_vars

\* C18: a frame that reaches one of the forwarding listeners of a pairing is
\* handed to send on the other socket (the proxy has no other way of telling
\* the sender about it): none is dropped because that socket is not open.
C18_NoSilentDiscard ==
  [][ \A p \in Peers :
        /\ (HandlersInstalled(p) /\ clientSent'[p] # clientSent[p]) =>
              upRecv'[p] # upRecv[p]
        /\ (HandlersInstalled(p) /\ titanSent'[p] # titanSent[p]) =>
              downRecv'[p] # downRecv[p] ]_vars

Elems(s) == {s[i] : i \in 1..Len(s)}
Increasing(s) == \A i, j \in 1..Len(s) : i < j => s[i] < s[j]

\* C22: the frames handed to a socket of a pairing are frames its own
\* counterpart sent, each at most once and in the order sent (frames are
\* numbered in the order sent, so: in increasing order), and none of them is a
\* frame of another pairing.
C22_NoCrossDelivery ==
  \A p \in Peers :
    /\ Elems(upRecv[p]) \subseteq Elems(clientSent[p])
    /\ Elems(downRecv[p]) \subseteq Elems(titanSent[p])
    /\ Increasing(upRecv[p])
    /\ Increasing(downRecv[p])
    /\ \A q \in Peers \ {p} :
         /\ Elems(upRecv[p]) \cap Elems(clientSent[q]) = {}
         /\ Elems(downRecv[p]) \cap Elems(titanSent[q]) = {}

\* Two peers relay at the same time, under the same key, and frames of both
\* were forwarded.
C22_Witness ==
  /\ \A p \in PairPeers : pc[p] = "relay" /\ clientWs[p] = OPEN /\ titanWs[p] = OPEN
  /\ clientId[1] = clientId[2]
  /\ upRecv[1] # <<>>
  /\ upRecv[2] # <<>>
  /\ downRecv[1] # <<>>

\* A pairing relays with both its sockets open.
Live(p) == pc[p] = "relay" /\ clientWs[p] = OPEN /\ titanWs[p] = OPEN

\* C24: two peers that relay at the same time have different keys, and each
\* of them has its own entry in connections.
C24_DistinctKeys ==
  \A p \in Peers :
    Live(p) =>
      /\ Registered(p)
      /\ \A q \in Peers \ {p} : Live(q) => clientId[q] # clientId[p]

\* C23: an upstream socket that is open has a downstream socket that is not
\* closed, and a peer whose socket has closed has no entry in connections.
C23_NoOrphanUpstream ==
  \A p \in Peers :
    /\ titanWs[p] = OPEN => clientWs[p] # CLOSED
    /\ clientWs[p] = CLOSED => ~Registered(p)

\* C25: an authorized peer whose handler has returned had its dial rejected:
\* it has no entry in connections, no listener was installed for it and none
\* of its frames was forwarded; and the step that handles the rejection
\* closes the peer's socket, if still open, with code 4002 and leaves
\* connections as it was.
C25_DialFailureClosesPeer ==
  /\ []( \A p \in Peers :
           (pc[p] = "done" /\ Authorized(p)) =>
             /\ dialResult[p] = "rejected"
             /\ closeCode[p] \in {0, 4002}
             /\ clientWs[p] # OPEN
             /\ ~Registered(p)
             /\ ~HandlersInstalled(p)
             /\ upRecv[p] = <<>>
             /\ downRecv[p] = <<>> )
  /\ [][ \A p \in Peers :
           (pc[p] = "dial" /\ dialResult[p] = "rejected" /\ pc'[p] # "dial") =>
             /\ pc'[p] = "done"
             /\ clientWs[p] = OPEN => (closeCode'[p] = 4002 /\ clientWs'[p] = CLOSING)
             /\ connections' = connections ]_vars

\* The dial of an authorized peer timed out (the timer terminated the
\* socket), the peer was closed with 4002, and a frame it had sent meanwhile
\* reached nobody.
C25_Witness ==
  \E p \in Peers :
    /\ pc[p] = "done"
    /\ Authorized(p)
    /\ titanWs[p] = CLOSING
    /\ closeCode[p] = 4002
    /\ clientSent[p] # <<>>
    /\ upRecv[p] = <<>>

\* C27: the close code of a peer is set once, by a close() on its open
\* socket, and names what the proxy was handling: 4001 a failed
\* authorization, 4002 a rejected dial, 4003 the close event of the upstream
\* socket, 4004 an error event of the upstream socket; no other code (4000
\* included) is given.
C27_CloseCodeNamesCause ==
  [][ \A p \in Peers :
        /\ closeCode[p] # 0 => closeCode'[p] = closeCode[p]
        /\ closeCode'[p] # closeCode[p] =>
             /\ clientWs[p] = OPEN
             /\ clientWs'[p] = CLOSING
             /\ closeCode'[p] \in {4001, 4002, 4003, 4004}
             /\ closeCode'[p] = 4001 =>
                   (pc[p] = "auth" /\ ~validateUserToken(userToken[p]).valid)
             /\ closeCode'[p] = 4002 =>
                   (pc[p] = "dial" /\ dialResult[p] = "rejected")
             /\ closeCode'[p] = 4003 =>
                   (HandlersInstalled(p) /\ titanWs[p] # CLOSED /\ titanWs'[p] = CLOSED)
             /\ closeCode'[p] = 4004 =>
                   (HandlersInstalled(p) /\ titanWs[p] = OPEN /\ titanWs'[p] = CLOSING) ]_vars

\* An upstream error closed the peer with 4004 and the close event of the
\* upstream socket followed.
C27_Witness ==
  \E p \in Peers :
    /\ closeCode[p] = 4004
    /\ titanWs[p] = CLOSED
    /\ pc[p] = "relay"

\* The timer of connectToTitan fires for p in this step.
TimerFires(p) == timer[p] /\ ~timer'[p]

\* C26: the promise of connectToTitan is settled once and stays as settled;
\* it resolves only with the socket open, and rejects only when the socket
\* fails while connecting or the timer finds it not open and terminates it;
\* the timer leaves an open socket alone; and a pending promise is
\* eventually settled.
C26_DialSettlesOnce ==
  /\ [][ \A p \in Peers :
           /\ dialResult[p] \in {"resolved", "rejected"} => dialResult'[p] = dialResult[p]
           /\ (dialResult[p] = "pending" /\ dialResult'[p] = "resolved") =>
                 (titanWs[p] = CONNECTING /\ titanWs'[p] = OPEN)
           /\ (dialResult[p] = "pending" /\ dialResult'[p] = "rejected") =>
                 \/ titanWs[p] = CONNECTING /\ titanWs'[p] = CLOSED
                 \/ TimerFires(p) /\ titanWs[p] # OPEN /\ titanWs'[p] # OPEN
           /\ (TimerFires(p) /\ titanWs[p] = OPEN) => titanWs'[p] = OPEN
           /\ (TimerFires(p) /\ titanWs[p] # OPEN) =>
                 (titanWs'[p] \in {CLOSING, CLOSED} /\ dialResult'[p] # "pending") ]_vars
  /\ \A p \in PairPeers : (dialResult[p] = "pending") ~> (dialResult[p] # "pending")

\* The timer fired after the promise was resolved and left the open socket
\* alone: the pairing still relays.
C26_Witness ==
  \E p \in Peers :
    /\ dialResult[p] = "resolved"
    /\ ~timer[p]
    /\ titanWs[p] = OPEN
    /\ clientWs[p] = OPEN
    /\ pc[p] = "relay"

\* --------------------------------------------------- raw client: claims

\* The known tags the handled message carries.
KnownTags(msg) == msg.tags \cap Tags
\* What the handler prints for a message it does not route to a branch.
ProtocolErrorOutputs == {"unknown-message", "decode-failed"}

\* C5: over any calls of the three builders, the first request has id 1 and
\* every request has an id greater than that of every request built before it
\* (so no two requests share an id).
C5_RequestIdsIncrease ==
  /\ Len(requests) > 0 => requests[1].id = 1
  /\ \A i, j \in 1..Len(requests) : i < j => requests[i].id < requests[j].id

C5_Witness ==
  /\ Len(requests) = MaxCalls
  /\ \A kind \in {"NewSwapQuoteStream", "StopStream", "GetInfo"} :
       \E i \in 1..Len(requests) : requests[i].data = kind
  /\ requests[1].data = "GetInfo"

\* C6: a decoded message that carries exactly one of the four tags entered
\* the branch of that tag and no other branch, and was not reported as
\* unknown or undecodable.
C6_OneBranchPerMessage ==
  (~decoded.malformed /\ Cardinality(KnownTags(decoded)) = 1) =>
    /\ \E t \in Tags : decoded.tags = {t} /\ handled = <<t>>
    /\ output \notin ProtocolErrorOutputs

C6_Witness ==
  /\ decoded.tags = {"Error"}
  /\ handled = <<"Error">>
  /\ output = "request-error"

\* C7: a decoded message that carries none of the four tags, or several of
\* them, entered no branch and was reported as an unknown message.
C7_AmbiguousIsProtocolError ==
  (~decoded.malformed /\ decoded # NoMessage /\ Cardinality(KnownTags(decoded)) # 1) =>
    /\ handled = <<>>
    /\ output \in ProtocolErrorOutputs

\* C8: a Response or Error whose requestId was not that of an outstanding
\* request was reported as a protocol error, not taken as a completion.
C8_UnknownRequestIdSurfaced ==
  (decoded.tags \in {{"Response"}, {"Error"}} /\ ~prior.pending) =>
    output \in ProtocolErrorOutputs

\* C9: a StreamData or StreamEnd naming a stream that no earlier Response
\* created, or one that has ended, was reported as a protocol error; and a
\* StreamEnd changes activeStreamId only when it names the active stream.
C9_UnknownStreamIdSurfaced ==
  /\ [](  (decoded.tags \in {{"StreamData"}, {"StreamEnd"}} /\ prior.stream # "active") =>
            output \in ProtocolErrorOutputs )
  /\ [][ (activeStreamId' # activeStreamId /\ decoded'.tags = {"StreamEnd"}) =>
            decoded'.id = activeStreamId ]_vars

\* C10: a StreamData for an active stream whose seq was not lastSeq + 1 was
\* reported as a protocol error, not printed as a quote.
C10_ContiguousOnly ==
  (decoded.tags = {"StreamData"} /\ prior.stream = "active"
     /\ decoded.seq # prior.lastSeq + 1) =>
    output \in ProtocolErrorOutputs

\* What the handler prints for a StreamData it accepts.
DeliveredOutputs == {"quote", "unknown-payload"}

\* C11: a StreamData naming a stream that has received StreamEnd (and that no
\* later Response created again) was not accepted: it entered no StreamData
\* branch and nothing of it was printed as stream data.
C11_NoDataAfterEnd ==
  (decoded.tags = {"StreamData"} /\ prior.stream = "ended") =>
    /\ output \notin DeliveredOutputs
    /\ handled # <<"StreamData">>

\* The SIGINT handler sent a StopStream request in this step.
StopStreamSent ==
  /\ Len(requests') = Len(requests) + 1
  /\ requests'[Len(requests')].data = "StopStream"

C13_NothingDanglingAfterClose ==
  (ws = CLOSED) =>
    /\ pending = {}
    /\ activeStreamId = Null
    /\ \A i \in StreamIds : streamState[i] # "active"

C19_DecodeFailureIsContained ==
  [][ /\ (decoded' # decoded /\ decoded'.malformed) =>
            /\ output' = "decode-failed"
            /\ handled' = <<>>
            /\ requestId' = requestId
            /\ requests' = requests
            /\ activeStreamId' = activeStreamId
            /\ pending' = pending
            /\ streamState' = streamState
            /\ ws' = ws
            /\ ~exited'
      /\ (decoded.malformed /\ decoded' # decoded /\ Cardinality(KnownTags(decoded')) = 1) =>
            /\ \E t \in Tags : decoded'.tags = {t} /\ handled' = <<t>>
            /\ output' \notin ProtocolErrorOutputs ]_vars

C19_Witness ==
  /\ decoded.malformed
  /\ output = "decode-failed"
  /\ activeStreamId = 1
  /\ requestId = 2
  /\ ws = OPEN

\* C20: activeStreamId is a stream only if a Response created that stream and
\* it has not ended since; and activeStreamId becomes a stream only in a step
\* in which the handler entered the Response branch for a message whose
\* stream field names it.
C20_StreamOnlyFromResponse ==
  /\ [](activeStreamId # Null => streamState[activeStreamId] = "active")
  /\ [][ (activeStreamId' # activeStreamId /\ activeStreamId' # Null) =>
            /\ "Response" \in decoded'.tags
            /\ decoded'.stream = activeStreamId'
            /\ handled' = <<"Response">> ]_vars

\* A StreamData for a stream no Response created was handled and did not
\* become the active stream.
C20_Witness ==
  /\ decoded.tags = {"StreamData"}
  /\ prior.stream = "none"
  /\ activeStreamId # Null
  /\ decoded.id # activeStreamId

\* The strings a request carries as message fields.
FieldValues(req) == {req.data} \cup {req.params[f] : f \in DOMAIN req.params}

\* C21: the API token is part of the URL the socket is opened with, and no
\* request the raw client has sent carries it in any of its fields.
C21_TokenOnlyInUrl ==
  /\ \E k \in 1..Len(wsUrl) : wsUrl[k] = AUTH_TOKEN
  /\ \A i \in 1..Len(requests) : AUTH_TOKEN \notin FieldValues(requests[i])

\* Both kinds of request the client sends were sent: the stream request,
\* with the wallet address in it, and a StopStream.
C21_Witness ==
  /\ Len(requests) = 2
  /\ requests[1].data = "NewSwapQuoteStream"
  /\ USER_PUBLIC_KEY \in FieldValues(requests[1])
  /\ requests[2].data = "StopStream"

\* The SIGINT handler ran in this step.
SigintStep == nSigints' = nSigints + 1

\* C28: the SIGINT handler sends a StopStream request exactly when a stream
\* is active and the socket is OPEN, and nothing else; the request names the
\* active stream and has an id no earlier request has; the handler leaves the
\* socket as it is and sets one timer; and the callback of such a timer is
\* what starts the close.
C28_StopOnShutdown ==
  [][ /\ SigintStep =>
           /\ StopStreamSent <=> (activeStreamId # Null /\ ws = OPEN)
           /\ ~StopStreamSent => requests' = requests
           /\ StopStreamSent =>
                 /\ requests'[Len(requests')].stream = activeStreamId
                 /\ \A i \in 1..Len(requests) :
                      requests[i].id # requests'[Len(requests')].id
           /\ closeTimers' = closeTimers + 1
           /\ ws' = ws
      /\ StopStreamSent => (SigintStep /\ ws = OPEN)
      /\ closeTimers' < closeTimers => ws' \in {CLOSING, CLOSED} ]_vars

\* SIGINT came with a stream active and the socket no longer open: no
\* StopStream was sent, the close timer is set.
C28_Witness ==
  /\ nSigints = 1
  /\ activeStreamId # Null
  /\ ws = CLOSING
  /\ Len(requests) = 1
  /\ closeTimers = 1

\* C29: every stream a Response created and no StreamEnd ended is the stream
\* the client holds active, and the SIGINT handler, the socket being open,
\* sends a StopStream for each such stream.
C29_AllStreamsTracked ==
  /\ []( \A i \in StreamIds : streamState[i] = "active" => activeStreamId = i )
  /\ [][ (SigintStep /\ ws = OPEN) =>
            \A i \in StreamIds :
              streamState[i] = "active" =>
                \E k \in (Len(requests) + 1)..Len(requests') :
                  requests'[k].data = "StopStream" /\ requests'[k].stream = i ]_vars

\* ------------------------------------------- reconnection pattern: claims

\* C15: the k-th delay a call of connectWithRetry waits (after its k-th
\* failed attempt) is min(1000 * 2^(k-1), 30000): 1000 ms after the first
\* failure, doubling after each later one, never above 30000 ms.
C15_BackoffDelays ==
  \A k \in 1..Len(delays) : delays[k] = Min(BaseDelayMs * 2^(k - 1), CapDelayMs)

\* C16: a call connectWithRetry(maxRetries) calls connect at most maxRetries
\* times; it throws only after maxRetries failed attempts; once an attempt
\* succeeded it has returned the client and that attempt was its last.
C16_BoundedRetries ==
  /\ []( /\ connects <= maxRetries
         /\ retryPc = "thrown" => (connects = maxRetries /\ attempt = maxRetries)
         /\ retryPc = "returned" => (client # "none" /\ connects = attempt + 1) )
  /\ [][ (retryPc = "returned" /\ invocations' = invocations) =>
            (connects' = connects /\ retryPc' = "returned") ]_vars

C16_Witness ==
  /\ retryPc = "thrown"
  /\ invocations = 1
  /\ maxRetries = 3
  /\ connects = 3

\* C17: once the caller has closed the client, connectWithRetry is not
\* called again and no connect attempt is made.
C17_NoReconnectAfterCallerClose ==
  callerClosed => (invocations = 1 /\ retryPc = "returned")

\* ------------------------------------------- SDK streaming example: claims

\* streamQuotes() has settled: it returned, or it rejected and the process
\* was ended by the catch of the last line.
StreamQuotesSettled == sdkPc \in {"done", "fatal"}

\* C30: whenever the quote-consuming loop has been left, normally or by an
\* error, stopStream has been called, and once streamQuotes() has settled
\* close has been called after it; close is never called before stopStream.
C30_StopThenClose ==
  /\ sdkCalls \in {<< >>, <<"stopStream">>, <<"stopStream", "close">>}
  /\ loopExit # "none" => Len(sdkCalls) >= 1 /\ sdkCalls[1] = "stopStream"
  /\ (loopExit # "none" /\ StreamQuotesSettled)
       => sdkCalls = <<"stopStream", "close">>

\* ----------------------------------------------- minimal example: claims

\* calls of `name` among the calls made on the client
Calls(name) == Cardinality({i \in 1..Len(minCalls) : minCalls[i] = name})

\* testMinimal() has settled: it returned or it rejected.
TestMinimalSettled == minPc \in {"done", "rejected"}

\* C31: at most 5 updates are consumed; stopStream has been called exactly
\* when the fifth update has been consumed, and at most once; close is never
\* called while the loop runs, and once testMinimal() has settled after its
\* loop was entered, close has been called exactly once.
C31_FiveThenStopThenClose ==
  /\ count <= QuoteLimit /\ Len(printed) = count
  /\ Calls("stopStream") = (IF count = QuoteLimit THEN 1 ELSE 0)
  /\ minPc \in {"streaming", "stopping"} => Calls("close") = 0
  /\ (minExit # "none" /\ TestMinimalSettled) => Calls("close") = 1

\* ------------------------------------------------ validateAmount: claims

\* The value of a bigint or finite number, in units of 2^-FracBits.
Scaled(input) ==
  IF input.kind = "bigint" THEN input.m * 2^FracBits
  ELSE input.m * 2^(input.e + FracBits)

\* The input is a whole number of the range [0, 2^UintBits - 1].
IsUint(input) ==
  /\ input.kind \in {"bigint", "number"}
  /\ Scaled(input) % 2^FracBits = 0
  /\ 0 <= Scaled(input)
  /\ Scaled(input) <= UINT64_MAX * 2^FracBits

\* C32: validateAmount returns exactly when its input is a whole number of
\* [0, UINT64_MAX], the two ends included, and then returns the value of the
\* input; for every other input (fractional, negative, larger, not finite)
\* it throws.
C32_ValidateAmountExact ==
  amountInput # NoInput =>
    /\ amountResult.ok <=> IsUint(amountInput)
    /\ amountResult.ok => amountResult.value * 2^FracBits = Scaled(amountInput)
    /\ amountInput = [kind |-> "bigint", m |-> 0, e |-> 0] => amountResult.ok
    /\ amountInput = [kind |-> "bigint", m |-> UINT64_MAX, e |-> 0]
         => amountResult.ok

\* The largest amount has been given and returned.
C32_Witness ==
  /\ amountInput = [kind |-> "bigint", m |-> UINT64_MAX, e |-> 0]
  /\ amountResult = Returned(UINT64_MAX)

====
